---- MODULE Spec2Model ----
(***************************************************************************)
(* Model of proxy_server.py: the /search-jira handler                      *)
(* jira_search_endpoint, which turns (q, project) into one JQL search      *)
(* request against Jira and maps the reply, or the failure, to a JSON      *)
(* response.                                                               *)
(*                                                                         *)
(* Strings are sequences of one-character strings, so that escaping,       *)
(* trimming, upper-casing, pattern matching and concatenation are computed *)
(* character by character as the Python code computes them.                *)
(***************************************************************************)
EXTENDS Integers, Sequences, FiniteSets, TLC

VARIABLES environ, pc, args, search_components, sent, calls, outcome,
          response, handled_by

vars == <<environ, pc, args, search_components, sent, calls, outcome,
          response, handled_by>>

(***************************************************************************)
(* Bounds of the model.                                                    *)
(***************************************************************************)
\* longest q the frontend sends
MaxLen == 3
\* largest number of issues the upstream data set holds for a query
MaxIssues == 26

(***************************************************************************)
(* Characters and string helpers.                                          *)
(***************************************************************************)
QUOTE == "\""
BACKSLASH == "\\"

\* the characters q is drawn from exhaustively
Chars == {"a", "A", "1", "-", " ", QUOTE, BACKSLASH}

\* characters str.strip() removes
Whitespace == {" ", "\t", "\n", "\r"}

\* characters str.isdigit() and \d accept
Digits == {"0", "1", "2", "3", "4", "5", "6", "7", "8", "9"}

LowerLetters ==
    <<"a", "b", "c", "d", "e", "f", "g", "h", "i", "j", "k", "l", "m",
      "n", "o", "p", "q", "r", "s", "t", "u", "v", "w", "x", "y", "z">>
UpperLetters ==
    <<"A", "B", "C", "D", "E", "F", "G", "H", "I", "J", "K", "L", "M",
      "N", "O", "P", "Q", "R", "S", "T", "U", "V", "W", "X", "Y", "Z">>

\* characters the class [a-z0-9_] accepts under re.IGNORECASE
WordChars_CaseSensitive ==
    {LowerLetters[i] : i \in 1..Len(LowerLetters)} \cup Digits \cup {"_"}
WordChars ==
    {LowerLetters[i] : i \in 1..Len(LowerLetters)}
    \cup {UpperLetters[i] : i \in 1..Len(UpperLetters)}
    \cup Digits \cup {"_"}

\* str.upper() on one character
UpperChar(c) ==
    IF \E i \in 1..Len(LowerLetters) : LowerLetters[i] = c
    THEN UpperLetters[CHOOSE i \in 1..Len(LowerLetters) : LowerLetters[i] = c]
    ELSE c

\* str.upper()
Upper(s) == [i \in 1..Len(s) |-> UpperChar(s[i])]

\* all strings over an alphabet of length at most n
StringsUpTo(alphabet, n) == UNION {[1..k -> alphabet] : k \in 0..n}


(***************************************************************************)
(* Literal fragments of the JQL the handler formats.                       *)
(***************************************************************************)
TEXT_OPEN == <<"t", "e", "x", "t", " ", "~", " ", QUOTE>>
TEXT_CLOSE == <<"*", QUOTE>>
ISSUEKEY_OPEN == <<"i", "s", "s", "u", "e", "k", "e", "y", " ", "=", " ", QUOTE>>
PROJECT_OPEN == <<"p", "r", "o", "j", "e", "c", "t", " ", "=", " ", QUOTE>>
AND_SEP == <<" ", "A", "N", "D", " ">>
OR_SEP == <<" ", "O", "R", " ">>
ORDER_BY == <<" ", "O", "R", "D", "E", "R", " ", "B", "Y", " ", "u", "p", "d", "a", "t", "e", "d", " ", "D", "E", "S", "C">>

(***************************************************************************)
(* Pure string functions of the handler.                                   *)
(***************************************************************************)
RECURSIVE Sanitize(_)
\* user_query.replace('"', '\\"')
Sanitize(s) ==
    IF s = <<>> THEN <<>>
    ELSE (IF Head(s) = QUOTE THEN <<BACKSLASH, QUOTE>> ELSE <<Head(s)>>)
         \o Sanitize(Tail(s))

RECURSIVE LStrip(_)
LStrip(s) ==
    IF s # <<>> /\ Head(s) \in Whitespace THEN LStrip(Tail(s)) ELSE s

RECURSIVE RStrip(_)
RStrip(s) ==
    IF s # <<>> /\ s[Len(s)] \in Whitespace
    THEN RStrip(SubSeq(s, 1, Len(s) - 1)) ELSE s

\* str.strip()
Strip_Missing(s) == s
Strip(s) == RStrip(LStrip(s))

\* str.isdigit()
IsDigit(s) == s # <<>> /\ \A i \in 1..Len(s) : s[i] \in Digits

\* re.compile(r'^[a-z0-9_]+-\d+$', re.IGNORECASE).fullmatch(s)
IssueKeyMatch(s) ==
    \E k \in 2..(Len(s) - 1) :
        /\ s[k] = "-"
        /\ \A i \in 1..(k - 1) : s[i] \in WordChars
        /\ \A i \in (k + 1)..Len(s) : s[i] \in Digits

RECURSIVE Join(_, _)
\* sep.join(parts)
Join(parts, sep) ==
    IF parts = <<>> THEN <<>>
    ELSE IF Len(parts) = 1 THEN parts[1]
    ELSE parts[1] \o sep \o Join(Tail(parts), sep)

\* the orders in which iterating a Python set may yield its elements
Orderings(S) ==
    {f \in [1..Cardinality(S) -> S] :
        \A i, j \in 1..Cardinality(S) : i # j => f[i] # f[j]}

(***************************************************************************)
(* Request arguments and configuration.                                    *)
(***************************************************************************)
\* request.args.get(name) / os.environ.get(name) is truthy
Truthy(d, name) == name \in DOMAIN d /\ d[name] # <<>>

ConfigNames == {"JIRA_URL", "JIRA_EMAIL", "JIRA_API_TOKEN"}

\* all([JIRA_URL, JIRA_EMAIL, JIRA_API_TOKEN])
Configured_Any(env) == \E n \in ConfigNames : Truthy(env, n)
Configured(env) == \A n \in ConfigNames : Truthy(env, n)

(***************************************************************************)
(* JQL construction.                                                       *)
(***************************************************************************)
TextCond(term) == TEXT_OPEN \o term \o TEXT_CLOSE
IssueKeyCond(k) == ISSUEKEY_OPEN \o k \o <<QUOTE>>

\* the synthesized key "<PROJECT>-<digits>"
PotentialKey_NoUpper(project_key, cleaned_search) ==
    project_key \o <<"-">> \o cleaned_search
PotentialKey(project_key, cleaned_search) ==
    Upper(project_key) \o <<"-">> \o cleaned_search

\* the set search_components built for a cleaned search term
SearchComponents(cleaned_search, a) ==
    {TextCond(cleaned_search)}
    \cup (IF IssueKeyMatch(cleaned_search)
          THEN {IssueKeyCond(Upper(cleaned_search))} ELSE {})
    \cup (IF Truthy(a, "project") /\ IsDigit(cleaned_search)
          THEN {IssueKeyCond(PotentialKey(a["project"], cleaned_search))}
          ELSE {})

\* clauses, for one iteration order of search_components
Clauses(order, a) ==
    (IF Truthy(a, "project")
     THEN <<PROJECT_OPEN \o Upper(a["project"]) \o <<QUOTE>>>> ELSE <<>>)
    \o (IF order # <<>>
        THEN << <<"(">> \o Join(order, OR_SEP) \o <<")">> >> ELSE <<>>)

\* jql_query
JqlQuery_OrJoined(order, a) == Join(Clauses(order, a), OR_SEP) \o ORDER_BY
JqlQuery(order, a) == Join(Clauses(order, a), AND_SEP) \o ORDER_BY


(***************************************************************************)
(* Inputs: configuration, request arguments, upstream replies.             *)
(***************************************************************************)
\* the value a configuration variable has when it is set and not empty
ConfigValue(n) ==
    CASE n = "JIRA_URL" -> <<"https://jira.test">>
      [] n = "JIRA_EMAIL" -> <<"bot@jira.test">>
      [] OTHER -> <<"token">>

\* os.environ at start-up: each variable is unset, empty or set
Environments ==
    UNION {
        {e \in [D -> {<<>>} \cup {ConfigValue(n) : n \in ConfigNames}] :
            \A n \in D : e[n] \in {<<>>, ConfigValue(n)}} :
        D \in SUBSET ConfigNames }

\* values of the project argument
ProjectKeys == {<<>>, <<"s", "c", "r", "u", "m">>}

\* queries beyond the exhaustive ones: the documented examples and their
\* variants in case
ExampleQueries ==
    {<<"1", "7">>,
     <<"S", "C", "R", "U", "M", "-", "4", "2">>,
     <<"s", "c", "r", "u", "m", "-", "4", "2">>,
     <<"A", "-", "1">>,
     <<"a", "_", "1", "-", "7">>,
     <<"s", "a", "y", " ", QUOTE, "h", "i", QUOTE>>}

\* request.args of one GET /search-jira
Requests ==
    LET Qs == StringsUpTo(Chars, MaxLen) \cup ExampleQueries
        NoArgs == [n \in {} |-> <<>>]
    IN  {NoArgs}
        \cup {[n \in {"q"} |-> v] : v \in Qs}
        \cup {[n \in {"project"} |-> p] : p \in ProjectKeys}
        \cup {[n \in {"q", "project"} |-> IF n = "q" THEN v[1] ELSE v[2]] :
                v \in Qs \X ProjectKeys}

\* 'maxResults' of query_data
MaxResults_Larger == 25 + 2
MaxResults == 25

\* timeout= of requests.post, in seconds
Timeout == 10

\* query_data and the other arguments of requests.post
QueryData(env, jql_query) ==
    [url |-> env["JIRA_URL"] \o <<"/rest/api/3/search">>,
     auth |-> <<env["JIRA_EMAIL"], env["JIRA_API_TOKEN"]>>,
     jql |-> jql_query,
     fields |-> <<"summary", "key">>,
     maxResults |-> MaxResults,
     timeout |-> Timeout]

NoRequest ==
    [url |-> <<>>, auth |-> <<>>, jql |-> <<>>, fields |-> <<>>,
     maxResults |-> 0, timeout |-> 0]

(***************************************************************************)
(* Upstream replies.  A JSON body is [t, issues, errorMessages, errors]:   *)
(* t is its JSON type ("notjson" when it does not parse), the other fields *)
(* are the members of a JSON object, each present or absent.               *)
(***************************************************************************)
AbsentIssues == [has |-> FALSE, val |-> <<>>]
AbsentMessages == [has |-> FALSE, elems |-> "str", val |-> <<>>]
AbsentErrors == [has |-> FALSE, val |-> ""]

Body(t, issues, errorMessages, errors) ==
    [t |-> t, issues |-> issues, errorMessages |-> errorMessages,
     errors |-> errors]

Plain(t) == Body(t, AbsentIssues, AbsentMessages, AbsentErrors)

\* a well-formed issue of the upstream's reply
Issue(i) ==
    [hasKey |-> TRUE, key |-> i, hasFields |-> TRUE, hasSummary |-> TRUE,
     summary |-> 100 + i, self |-> 1000 + i]

\* issues that lack 'key', 'fields' or 'summary'
BadIssues ==
    {[Issue(2) EXCEPT !.hasKey = FALSE],
     [Issue(2) EXCEPT !.hasFields = FALSE, !.hasSummary = FALSE],
     [Issue(2) EXCEPT !.hasSummary = FALSE]}

\* sizes of the data set matching a query
DatasetSizes == {0, 1, 2} \cup ((MaxResults - 1)..MaxIssues)

\* the upstream search: the first maxResults matches, most recent first
UpstreamIssues(request, n) ==
    [i \in 1..(IF n < request.maxResults THEN n ELSE request.maxResults)
        |-> Issue(i)]

\* bodies of a 2xx reply
SuccessBodies(request) ==
    {Body("dict", [has |-> TRUE, val |-> UpstreamIssues(request, n)],
          AbsentMessages, AbsentErrors) : n \in DatasetSizes}
    \cup {Body("dict", [has |-> TRUE, val |-> <<Issue(1), b>>],
               AbsentMessages, AbsentErrors) : b \in BadIssues}
    \cup {Plain("dict"), Plain("null"), Plain("notjson")}

\* status line of a 4xx/5xx reply
ErrorStatuses == {<<400, "Bad Request">>, <<502, "Bad Gateway">>}

StatusStr(status) ==
    CASE status = 400 -> "400" [] status = 502 -> "502" [] OTHER -> "???"

\* bodies of a 4xx/5xx reply
ErrorBodies ==
    {Plain("notjson"), Plain("null"), Plain("number"), Plain("list")}
    \cup {Body("dict", AbsentIssues, m, e) :
            m \in {AbsentMessages,
                   [has |-> TRUE, elems |-> "str", val |-> <<>>]},
            e \in {AbsentErrors, [has |-> TRUE, val |-> "{}"],
                   [has |-> TRUE, val |-> "{\"jql\": \"bad\"}"]}}
    \cup {Body("dict", AbsentIssues, m, e) :
            m \in {[has |-> TRUE, elems |-> "str",
                    val |-> <<"field X invalid">>],
                   [has |-> TRUE, elems |-> "str",
                    val |-> <<"field X invalid", "bad jql">>],
                   [has |-> TRUE, elems |-> "int", val |-> <<"400">>]},
            e \in {AbsentErrors}}

NoBody == Plain("none")

NoOutcome == [kind |-> "none", status |-> 0, reason |-> "", body |-> NoBody]


(***************************************************************************)
(* Responses of the handler.                                               *)
(***************************************************************************)
\* jsonify(items) with status 200
JsonList(items) ==
    [status |-> 200, kind |-> "list", items |-> items, error |-> <<>>]

\* jsonify({"error": message}), status
JsonError(message, status) ==
    [status |-> status, kind |-> "error", items |-> <<>>, error |-> message]

\* an exception left the view function: the framework answers in its place
Unhandled ==
    [status |-> 500, kind |-> "unhandled", items |-> <<>>, error |-> <<>>]

NoResponse ==
    [status |-> 0, kind |-> "none", items |-> <<>>, error |-> <<>>]

\* what a return or except clause yields: the response and the clause
Result(resp, clause) == [response |-> resp, handled_by |-> clause]

\* issue['key'] and issue['fields']['summary'] both exist
WellFormed(issue) == issue.hasKey /\ issue.hasFields /\ issue.hasSummary

\* simplified_issues
SimplifiedIssues(issues) ==
    [i \in 1..Len(issues) |->
        [key |-> issues[i].key, summary |-> issues[i].summary]]

\* except requests.exceptions.RequestException
OnRequestException(text) ==
    Result(JsonError(<<"Failed to connect to Jira: ", text>>, 502),
           "RequestException")

\* except Exception
OnException(text) ==
    Result(JsonError(<<"An unexpected server error occurred: ", text>>, 500),
           "Exception")

\* The try body after a 2xx reply.  response.json() raises
\* requests.exceptions.JSONDecodeError, a RequestException, in requests
\* 2.27 and later, and a plain ValueError before: json_error_is_request_exception
\* says which library is installed.
OnSuccess(body, json_error_is_request_exception) ==
    IF body.t = "notjson"
    THEN IF json_error_is_request_exception
         THEN OnRequestException("JSONDecodeError")
         ELSE OnException("JSONDecodeError")
    ELSE IF body.t # "dict"
    THEN OnException("AttributeError")
    ELSE LET issues == IF body.issues.has THEN body.issues.val ELSE <<>>
         IN  IF \E i \in 1..Len(issues) : ~WellFormed(issues[i])
             THEN OnException("KeyError")
             ELSE Result(JsonList(SimplifiedIssues(issues)), "ok")

\* error_details as first assigned in the HTTPError clause
StatusText(status, reason) ==
    <<"Jira returned HTTP ", StatusStr(status), ": ", reason>>

\* except requests.exceptions.HTTPError
OnHTTPError(status, reason, body) ==
    IF body.t = "notjson"
    THEN Result(JsonError(StatusText(status, reason), status), "HTTPError")
    ELSE IF body.t \in {"null", "number"}
    THEN Result(Unhandled, "unhandled")
    ELSE IF body.errorMessages.has /\ body.errorMessages.val # <<>>
    THEN IF body.errorMessages.elems = "str"
         THEN Result(JsonError(
                  <<"Jira Error: ">>
                  \o Join([i \in 1..Len(body.errorMessages.val) |->
                              <<body.errorMessages.val[i]>>], <<", ">>),
                  status), "HTTPError")
         ELSE Result(Unhandled, "unhandled")
    ELSE IF body.errors.has /\ body.errors.val # "{}"
    THEN Result(JsonError(<<"Jira Field Error: ", body.errors.val>>, status),
                "HTTPError")
    ELSE Result(JsonError(StatusText(status, reason), status), "HTTPError")

(***************************************************************************)
(* The state machine.                                                      *)
(***************************************************************************)
Init ==
    /\ environ \in Environments
    /\ pc = "idle"
    /\ args = [n \in {} |-> <<>>]
    /\ search_components = {}
    /\ sent = NoRequest
    /\ calls = 0
    /\ outcome = NoOutcome
    /\ response = NoResponse
    /\ handled_by = "none"

\* the handler returns before the upstream call
ReturnEarly(a, result) ==
    /\ pc' = "done"
    /\ args' = a
    /\ response' = result.response
    /\ handled_by' = result.handled_by
    /\ UNCHANGED <<environ, search_components, sent, calls, outcome>>

\* jira_search_endpoint up to requests.post, for request.args = a
Handle(a) ==
    /\ IF ~Configured(environ)
       THEN ReturnEarly(a, Result(JsonError(
                <<"Backend server is missing JIRA configuration.">>, 500),
                "config"))
       ELSE IF ~Truthy(a, "q")
       THEN ReturnEarly(a, Result(JsonList(<<>>), "empty"))
       ELSE LET cleaned_search == Strip(Sanitize(a["q"]))
            IN  IF cleaned_search = <<>>
                THEN ReturnEarly(a, Result(JsonList(<<>>), "empty"))
                ELSE \E order \in Orderings(SearchComponents(cleaned_search, a)) :
                        /\ pc' = "calling"
                        /\ args' = a
                        /\ search_components' =
                               SearchComponents(cleaned_search, a)
                        /\ sent' = QueryData(environ, JqlQuery(order, a))
                        /\ calls' = calls + 1
                        /\ UNCHANGED <<environ, outcome, response, handled_by>>

\* GET /search-jira arrives
Request ==
    /\ pc = "idle"
    /\ \E a \in Requests : Handle(a)

\* the rest of the handler, once requests.post has an outcome
Finish(o, result) ==
    /\ pc' = "done"
    /\ outcome' = o
    /\ response' = result.response
    /\ handled_by' = result.handled_by
    /\ UNCHANGED <<environ, args, search_components, sent, calls>>

\* the upstream answers 2xx
UpstreamSuccess ==
    /\ pc = "calling"
    /\ \E body \in SuccessBodies(sent), lib \in BOOLEAN :
          Finish([kind |-> "success", status |-> 200, reason |-> "OK",
                  body |-> body],
                 OnSuccess(body, lib))

\* the upstream answers 4xx/5xx: raise_for_status() raises HTTPError
UpstreamHTTPError ==
    /\ pc = "calling"
    /\ \E st \in ErrorStatuses, body \in ErrorBodies :
          Finish([kind |-> "http_error", status |-> st[1], reason |-> st[2],
                  body |-> body],
                 OnHTTPError(st[1], st[2], body))

\* no reply: the connection fails, or nothing arrives within the timeout
UpstreamUnreachable ==
    /\ pc = "calling"
    /\ \E cause \in {"ConnectionError"}
                    \cup (IF sent.timeout > 0 THEN {"Timeout"} ELSE {}) :
          Finish([kind |-> "unreachable", status |-> 0, reason |-> cause,
                  body |-> NoBody],
                 OnRequestException(cause))

\* the response is sent; the next request starts from a clean slate
Deliver ==
    /\ pc = "done"
    /\ pc' = "idle"
    /\ args' = [n \in {} |-> <<>>]
    /\ search_components' = {}
    /\ sent' = NoRequest
    /\ calls' = 0
    /\ outcome' = NoOutcome
    /\ response' = NoResponse
    /\ handled_by' = "none"
    /\ UNCHANGED environ

Next ==
    \/ Request
    \/ UpstreamSuccess
    \/ UpstreamHTTPError
    \/ UpstreamUnreachable
    \/ Deliver

Spec == Init /\ [][Next]_vars


(***************************************************************************)
(* Vocabulary of the properties.                                           *)
(***************************************************************************)
\* sub occurs in s as a contiguous substring
Contains(s, sub) ==
    \E i \in 0..(Len(s) - Len(sub)) : SubSeq(s, i + 1, i + Len(sub)) = sub

\* q is absent, empty or whitespace-only
BlankQuery(a) ==
    \/ "q" \notin DOMAIN a
    \/ \A i \in 1..Len(a["q"]) : a["q"][i] \in Whitespace

\* one of the three configuration values is absent or empty
ConfigDeficient(env) ==
    \E n \in ConfigNames : n \notin DOMAIN env \/ env[n] = <<>>

\* a project key is supplied
ProjectSupplied(a) == "project" \in DOMAIN a /\ Len(a["project"]) > 0

\* the handler is past its early returns, or has returned
InFlight == pc \in {"calling", "done"}

\* the project-equality prefix of the JQL, when a project key is supplied
ProjectPrefix(a) ==
    IF ProjectSupplied(a)
    THEN <<"p", "r", "o", "j", "e", "c", "t", " ", "=", " ", QUOTE>>
         \o Upper(a["project"]) \o <<QUOTE, " ", "A", "N", "D", " ">>
    ELSE <<>>

(***************************************************************************)
(* C1.  Blank queries.                                                     *)
(***************************************************************************)
\* C1 as stated: every request whose q is absent, empty or whitespace-only
\* is answered 200 with body [] and makes no upstream call.
C1_BlankQueryAlwaysEmptyList ==
    (InFlight /\ BlankQuery(args)) =>
        /\ calls = 0
        /\ pc = "done"
        /\ response = JsonList(<<>>)

\* C1 as amended: when the three configuration values are all present, every
\* request whose q is absent, empty or whitespace-only is answered 200 with
\* body [] and makes no upstream call; whatever the configuration, such a
\* request makes no upstream call.
C1_BlankQueryEmptyListWhenConfigured ==
    (InFlight /\ BlankQuery(args)) =>
        /\ calls = 0
        /\ pc = "done"
        /\ ~ConfigDeficient(environ) => response = JsonList(<<>>)

\* a whitespace-only q was answered with the empty list
C1_Witness ==
    /\ pc = "done"
    /\ ~ConfigDeficient(environ)
    /\ "q" \in DOMAIN args
    /\ args["q"] = <<" ", " ">>
    /\ response = JsonList(<<>>)
    /\ calls = 0

(***************************************************************************)
(* C2.  Missing configuration.                                             *)
(***************************************************************************)
\* C2: if any of JIRA_URL, JIRA_EMAIL, JIRA_API_TOKEN is absent or empty,
\* the response is an error object with status 500 and no upstream call is
\* made, whatever q and project are.
C2_MissingConfigIs500 ==
    (InFlight /\ ConfigDeficient(environ)) =>
        /\ pc = "done"
        /\ response.kind = "error"
        /\ response.status = 500
        /\ calls = 0
        /\ sent = NoRequest

\* a searchable request was refused because one value is set but empty
C2_Witness ==
    /\ pc = "done"
    /\ DOMAIN environ = ConfigNames
    /\ environ["JIRA_API_TOKEN"] = <<>>
    /\ environ["JIRA_URL"] # <<>>
    /\ environ["JIRA_EMAIL"] # <<>>
    /\ ~BlankQuery(args)
    /\ ProjectSupplied(args)
    /\ response.status = 500
    /\ response.kind = "error"


(***************************************************************************)
(* C3.  Quotes of q in the JQL.                                            *)
(***************************************************************************)
RECURSIVE ScanLiterals(_, _, _, _)
\* Reads JQL text from position i: a quote opens a string literal, inside a
\* literal a backslash escapes the next character and a bare quote closes
\* the literal.  Yields the number of closed literals and whether the text
\* ends outside a literal.
ScanLiterals(s, i, inside, closed) ==
    IF i > Len(s) THEN [literals |-> closed, balanced |-> ~inside]
    ELSE IF ~inside
    THEN ScanLiterals(s, i + 1, s[i] = QUOTE, closed)
    ELSE IF s[i] = BACKSLASH THEN ScanLiterals(s, i + 2, TRUE, closed)
    ELSE IF s[i] = QUOTE THEN ScanLiterals(s, i + 1, FALSE, closed + 1)
    ELSE ScanLiterals(s, i + 1, TRUE, closed)

\* the string literals the handler means to write: one per match condition,
\* one for the project key
IntendedLiterals ==
    Cardinality(search_components) + (IF ProjectSupplied(args) THEN 1 ELSE 0)

\* C3: when q contains a double quote, no quote taken from q terminates the
\* string literal it is embedded in: the JQL sent holds exactly the literals
\* the handler wrote, each closed by the handler's own quote, also when q has
\* a backslash right before a quote.
C3_QuotesOfQueryEscaped ==
    (pc = "calling" /\ \E i \in 1..Len(args["q"]) : args["q"][i] = QUOTE) =>
        /\ ScanLiterals(sent.jql, 1, FALSE, 0).balanced
        /\ ScanLiterals(sent.jql, 1, FALSE, 0).literals = IntendedLiterals

(***************************************************************************)
(* C4.  Numeric term and project key.                                      *)
(***************************************************************************)
\* the trimmed q
TrimmedQuery == RStrip(LStrip(args["q"]))

\* a match condition issuekey = "..."
IsIssueKeyCondition(c) ==
    /\ Len(c) >= Len(ISSUEKEY_OPEN)
    /\ SubSeq(c, 1, Len(ISSUEKEY_OPEN)) = ISSUEKEY_OPEN

\* C4: when project is supplied and the trimmed q is all digits, the OR-ed
\* match conditions include issuekey = "<uppercased project>-<trimmed q>";
\* when project is not supplied, an all-digit q yields no issue-key
\* condition at all.
C4_NumericTermSynthesizesKey ==
    (pc = "calling" /\ IsDigit(TrimmedQuery)) =>
        LET synthesized ==
                <<"i", "s", "s", "u", "e", "k", "e", "y", " ", "=", " ", QUOTE>>
                \o Upper(args["project"]) \o <<"-">> \o TrimmedQuery
                \o <<QUOTE>>
        IN  IF ProjectSupplied(args)
            THEN /\ synthesized \in search_components
                 /\ Contains(sent.jql, synthesized)
            ELSE \A c \in search_components : ~IsIssueKeyCondition(c)

\* q = "17" with project = "scrum" is searched as issuekey = "SCRUM-17"
C4_Witness ==
    /\ pc = "calling"
    /\ ProjectSupplied(args)
    /\ args["q"] = <<"1", "7">>
    /\ args["project"] = <<"s", "c", "r", "u", "m">>
    /\ Contains(sent.jql,
           <<"i", "s", "s", "u", "e", "k", "e", "y", " ", "=", " ", QUOTE,
             "S", "C", "R", "U", "M", "-", "1", "7", QUOTE>>)

(***************************************************************************)
(* C5.  Text condition and exact issue key.                                *)
(***************************************************************************)
\* <alphanumeric project code>-<digits>, in either case
LooksLikeIssueKey(s) ==
    LET Alnum == {LowerLetters[i] : i \in 1..Len(LowerLetters)}
                 \cup {UpperLetters[i] : i \in 1..Len(UpperLetters)}
                 \cup Digits
    IN  \E k \in 2..(Len(s) - 1) :
            /\ s[k] = "-"
            /\ \A i \in 1..(k - 1) : s[i] \in Alnum
            /\ \A i \in (k + 1)..Len(s) : s[i] \in Digits

\* C5: for every non-blank q the JQL includes text ~ "<term>*", the term
\* being the trimmed q with its quotes escaped; and when the trimmed q has
\* the shape <alphanumeric>-<digits>, in either case, with or without a
\* project key, the OR-ed conditions also include issuekey = "<TERM>", the
\* term in upper case.
C5_TextAndIssueKeyConditions ==
    pc = "calling" =>
        LET text == <<"t", "e", "x", "t", " ", "~", " ", QUOTE>>
                    \o Sanitize(TrimmedQuery) \o <<"*", QUOTE>>
            exact == <<"i", "s", "s", "u", "e", "k", "e", "y", " ", "=", " ",
                       QUOTE>> \o Upper(TrimmedQuery) \o <<QUOTE>>
        IN  /\ text \in search_components
            /\ Contains(sent.jql, text)
            /\ LooksLikeIssueKey(TrimmedQuery) =>
                  /\ exact \in search_components
                  /\ Contains(sent.jql, exact)

\* q = "scrum-42" without a project key yields both conditions
C5_Witness ==
    /\ pc = "calling"
    /\ ~ProjectSupplied(args)
    /\ args["q"] = <<"s", "c", "r", "u", "m", "-", "4", "2">>
    /\ Contains(sent.jql,
           <<"t", "e", "x", "t", " ", "~", " ", QUOTE,
             "s", "c", "r", "u", "m", "-", "4", "2", "*", QUOTE>>)
    /\ Contains(sent.jql,
           <<"i", "s", "s", "u", "e", "k", "e", "y", " ", "=", " ", QUOTE,
             "S", "C", "R", "U", "M", "-", "4", "2", QUOTE>>)

(***************************************************************************)
(* C10.  Shape of the JQL.                                                 *)
(***************************************************************************)
\* C10: the JQL sent is [project = "<PROJECT>" AND ] (<match conditions
\* joined by OR>) ORDER BY updated DESC, the project prefix being present
\* exactly when a project key is supplied.
C10_JqlShape ==
    pc = "calling" =>
        \E order \in Orderings(search_components) :
            sent.jql =
                ProjectPrefix(args)
                \o <<"(">> \o Join(order, <<" ", "O", "R", " ">>) \o <<")">>
                \o <<" ", "O", "R", "D", "E", "R", " ", "B", "Y", " ",
                     "u", "p", "d", "a", "t", "e", "d", " ",
                     "D", "E", "S", "C">>

\* a project-scoped query with two match conditions
C10_Witness ==
    /\ pc = "calling"
    /\ ProjectSupplied(args)
    /\ Cardinality(search_components) = 2
    /\ SubSeq(sent.jql, 1, Len(ProjectPrefix(args))) = ProjectPrefix(args)


(***************************************************************************)
(* C6.  Upstream 4xx/5xx.                                                  *)
(***************************************************************************)
\* C6: when the upstream returns a 4xx/5xx status S, the proxy responds with
\* status S and an error object; a JSON body with a non-empty errorMessages
\* list has each of its messages in the error message; a body that is not
\* JSON, or lacks errorMessages and errors, yields the status code and reason.
C6_UpstreamErrorPropagated ==
    (pc = "done" /\ outcome.kind = "http_error") =>
        LET body == outcome.body
            fallback == <<"Jira returned HTTP ", StatusStr(outcome.status),
                          ": ", outcome.reason>>
        IN  /\ response.kind = "error"
            /\ response.status = outcome.status
            /\ (body.errorMessages.has /\ body.errorMessages.elems = "str") =>
                  \A i \in 1..Len(body.errorMessages.val) :
                     \E j \in 1..Len(response.error) :
                        response.error[j] = body.errorMessages.val[i]
            /\ (~body.errorMessages.has /\ ~body.errors.has) =>
                  response.error = fallback

(***************************************************************************)
(* C7.  Upstream unreachable.                                              *)
(***************************************************************************)
\* C7: when the upstream call fails with a network error or times out before
\* any response is received, the proxy responds 502 with an error object;
\* and the proxy's own 502 (the RequestException clause) has no other cause.
C7_BadGatewayOnlyWhenUnreachable ==
    pc = "done" =>
        /\ outcome.kind = "unreachable" =>
              /\ response.kind = "error"
              /\ response.status = 502
        /\ handled_by = "RequestException" => outcome.kind = "unreachable"

(***************************************************************************)
(* C8.  Result cap and normalisation.                                      *)
(***************************************************************************)
\* C8: a returned list holds at most 25 issues, by way of the maxResults = 25
\* request parameter only, and has exactly one {key, summary} entry per
\* issue of the upstream response, in the same order.
C8_ResultCapAndOrder ==
    (pc = "done" /\ outcome.kind = "success" /\ response.kind = "list") =>
        LET issues == IF outcome.body.issues.has
                      THEN outcome.body.issues.val ELSE <<>>
        IN  /\ sent.maxResults = 25
            /\ Len(response.items) <= 25
            /\ Len(response.items) = Len(issues)
            /\ \A i \in 1..Len(issues) :
                  response.items[i] =
                      [key |-> issues[i].key, summary |-> issues[i].summary]

\* a full page of 25 issues was returned
C8_Witness ==
    /\ pc = "done"
    /\ outcome.kind = "success"
    /\ response.kind = "list"
    /\ Len(response.items) = 25
    /\ response.items[25] = [key |-> 25, summary |-> 125]

(***************************************************************************)
(* C9.  Nothing escapes the handler.                                       *)
(***************************************************************************)
\* C9: whatever the upstream outcome, the handler returns either a JSON list
\* with status 200 or a JSON error object with a non-200 status, after at
\* most one upstream call.
C9_AlwaysJsonEnvelope ==
    /\ calls <= 1
    /\ pc = "done" =>
          \/ response.kind = "list" /\ response.status = 200
          \/ response.kind = "error" /\ response.status # 200

====
